---- MODULE Spec2Model ----
(***************************************************************************)
(* A model of jeekdb.Jeekdb (src/jeekdb.py): one manager object wrapping   *)
(* one mysql.connector connection, its lazy idle reconnect, and the query  *)
(* operations built on a cursor.  The driver (mysql.connector) is the      *)
(* environment: whether connect, execute and a fetch succeed, and the      *)
(* result set a statement produces, are inputs of each action.             *)
(***************************************************************************)
EXTENDS Integers, Sequences, FiniteSets, TLC

(* ------------------------------ bounds --------------------------------- *)
MaxTime == 2
MaxConns == 2
MaxCursors == 2
MaxRows == 2
MaxSize == 2

(* ------------------------------ values --------------------------------- *)
\* the max_idle_time arguments given to the constructor: expiring at once, and
\* expiring after more than one unit of time
IdleTimes == {0, 1}

None == 0

Min(a, b) == IF a < b THEN a ELSE b

\* the rows a statement produces: n distinct rows, in the driver's order
ResultSet(n) == [i \in 1..n |-> i]

\* a mapping (dict) argument: its keys in iteration order; none = Python None
KeySeqs == {<<>>, <<"id">>, <<"id", "name">>, <<"name", "id">>}
Dicts == [none : {FALSE}, keys : KeySeqs]
NoneDict == [none |-> TRUE, keys |-> <<>>]
EmptyDict == [none |-> FALSE, keys |-> <<>>]

\* the driver's answers during one call: connect, execute and fetch succeed
\* or raise; the statement's result set (n rows), cursor.with_rows,
\* cursor.lastrowid and cursor.rowcount.  An answer the call cannot reach
\* (a result set after a failed execute) is fixed, not enumerated.
Answers == [connectOk : BOOLEAN, execOk : BOOLEAN, fetchOk : BOOLEAN,
            n : 0..MaxRows, with_rows : BOOLEAN, lastrowid : {None, 1},
            rowcount : -1..1]
Inputs == {i \in Answers :
             /\ ~i.connectOk => (i.execOk /\ i.fetchOk /\ i.with_rows /\ i.n = 0)
             /\ ~i.execOk => (i.fetchOk /\ i.with_rows /\ i.n = 0)
             /\ ~i.fetchOk => i.n = 0
             /\ i.with_rows => (i.lastrowid = None /\ i.rowcount = -1)
             /\ ~i.with_rows => (i.n = 0 /\ i.fetchOk /\ i.rowcount >= 0
                                   /\ (i.lastrowid = 1 => i.rowcount = 1))}
\* a statement that produces a result set (a SELECT)
SelectInputs == {i \in Inputs : i.with_rows}
\* a statement that produces none and changes one row (INSERT, DELETE)
DmlInputs == {i \in Inputs : (~i.with_rows /\ i.lastrowid = 1) \/ ~i.execOk
                                                               \/ ~i.connectOk}

\* the backtick character, which a TLA+ string cannot hold
Backtick == "[backtick]"

VARIABLES
    now,            \* time.time()
    obj,            \* life of the Jeekdb object: "new", "live", "failed", "deleted"
    max_idle_time,  \* self.max_idle_time
    last_use_time,  \* self._last_use_time
    db,             \* self._db: None, or the index of a driver connection in conns
    conns,          \* every driver connection ever opened: [open, closes, since], since
                    \* being when it was opened or last gave a cursor (0 once closed)
    cursors,        \* every driver cursor ever created: [conn, open, owner, rows, executes]
    gen,            \* the generator object returned by iter()
    last            \* the last call on the object and what the caller got from it

vars == <<now, obj, max_idle_time, last_use_time, db, conns, cursors, gen, last>>

(* ------------------- the running call: a state record ------------------- *)
\* The fields of the object and of the driver as a call runs, with the call's
\* log of driver calls (ev), the exception in flight (exc, msg), its return
\* value (ret), the statement handed to the driver (sql, params) and what the
\* driver's cursor reported after executing it (drv).
NoDrv == [with_rows |-> FALSE, lastrowid |-> None, rowcount |-> 0, n |-> 0]

St ==
    [db |-> db, last_use_time |-> last_use_time, conns |-> conns, cursors |-> cursors,
     ev |-> <<>>, exc |-> "none", msg |-> "", ret |-> None,
     sql |-> <<>>, params |-> NoneDict, drv |-> NoDrv]

Raise(s, exc, msg) == [s EXCEPT !.exc = exc, !.msg = msg]
Log(s, e) == [s EXCEPT !.ev = Append(@, e)]

\* _exceed_max_idle_time
_exceed_max_idle_time_swapped(s) == s.last_use_time - now > max_idle_time

_exceed_max_idle_time(s) == now - s.last_use_time > max_idle_time

\* close: close connection if connected
close_handle_only(s) == [s EXCEPT !.db = None]

close_dropped(s) ==
    IF s.db # None
    THEN Log([s EXCEPT !.conns[s.db].open = FALSE,
                       !.conns[s.db].closes = @ + 1,
                       !.conns[s.db].since = 0], "db.close")
    ELSE s

close(s) ==
    IF s.db # None
    THEN Log([s EXCEPT !.conns[s.db].open = FALSE,
                       !.conns[s.db].closes = @ + 1,
                       !.conns[s.db].since = 0,
                       !.db = None], "db.close")
    ELSE s

\* mysql.connector.connect(**self._db_args)
connect(s, ok) ==
    IF ok
    THEN Log([s EXCEPT !.conns = Append(@, [open |-> TRUE, closes |-> 0, since |-> now]),
                       !.db = Len(s.conns) + 1], "connect")
    ELSE Raise(Log(s, "connect_fail"), "DriverError", "connect")

\* reconnect: close the existing connection and re-open it
reconnect_keep(s, ok) == connect(s, ok)

reconnect(s, ok) == connect(close(s), ok)

\* _ensure_connected
_ensure_connected_nocheck(s, ok) ==
    LET r == IF s.db = None THEN reconnect(s, ok) ELSE s
    IN  IF r.exc # "none" THEN r
        ELSE Log([r EXCEPT !.last_use_time = now], "stamp")

_ensure_connected(s, ok) ==
    LET r == IF s.db = None \/ _exceed_max_idle_time(s) THEN reconnect(s, ok) ELSE s
    IN  IF r.exc # "none" THEN r
        ELSE Log([r EXCEPT !.last_use_time = now], "stamp")

\* _cursor: the new cursor is the last element of cursors
_cursor(s, ok, owner) ==
    LET e == _ensure_connected(s, ok)
    IN  IF e.exc # "none" THEN e
        ELSE Log([e EXCEPT !.conns[e.db].since = now,
                           !.cursors = Append(@, [conn |-> e.db, open |-> TRUE,
                                                     owner |-> owner, rows |-> <<>>,
                                                     executes |-> 0, with_rows |-> FALSE,
                                                     lastrowid |-> None,
                                                     rowcount |-> 0])], "cursor")

\* cursor.close(): the driver drops the cursor's result
cursor_close(s, k) ==
    Log([s EXCEPT !.cursors[k].open = FALSE, !.cursors[k].rows = <<>>,
                  !.cursors[k].with_rows = FALSE, !.cursors[k].lastrowid = None,
                  !.cursors[k].rowcount = 0], "cursor.close")

\* _execute: cursor.execute(sql, parameter_dict); a mysql.connector.Error
\* becomes a JeekdbError
_execute_swallow(s, k, sql, params, i) ==
    LET p == IF params.none THEN EmptyDict ELSE params
        t == [s EXCEPT !.sql = sql, !.params = p, !.cursors[k].executes = @ + 1]
    IN  IF i.execOk
        THEN Log([t EXCEPT !.cursors[k].rows = IF i.with_rows THEN ResultSet(i.n)
                                                ELSE <<>>,
                           !.cursors[k].with_rows = i.with_rows,
                           !.cursors[k].lastrowid = i.lastrowid,
                           !.cursors[k].rowcount = i.rowcount,
                           !.drv = [with_rows |-> i.with_rows, lastrowid |-> i.lastrowid,
                                    rowcount |-> i.rowcount,
                                    n |-> IF i.with_rows THEN i.n ELSE 0]], "execute")
        ELSE Log(t, "execute_fail")

_execute_retry(s, k, sql, params, i) ==
    LET p == IF params.none THEN EmptyDict ELSE params
        t == [s EXCEPT !.sql = sql, !.params = p, !.cursors[k].executes = @ + 1]
    IN  IF i.execOk
        THEN Log([t EXCEPT !.cursors[k].rows = IF i.with_rows THEN ResultSet(i.n)
                                                ELSE <<>>,
                           !.cursors[k].with_rows = i.with_rows,
                           !.cursors[k].lastrowid = i.lastrowid,
                           !.cursors[k].rowcount = i.rowcount,
                           !.drv = [with_rows |-> i.with_rows, lastrowid |-> i.lastrowid,
                                    rowcount |-> i.rowcount,
                                    n |-> IF i.with_rows THEN i.n ELSE 0]], "execute")
        ELSE Raise(Log(Log([t EXCEPT !.cursors[k].executes = @ + 1], "execute_fail"),
                       "execute_fail"), "JeekdbError", "_execute failed")

_execute(s, k, sql, params, i) ==
    LET p == IF params.none THEN EmptyDict ELSE params
        t == [s EXCEPT !.sql = sql, !.params = p, !.cursors[k].executes = @ + 1]
    IN  IF i.execOk
        THEN Log([t EXCEPT !.cursors[k].rows = IF i.with_rows THEN ResultSet(i.n)
                                                ELSE <<>>,
                           !.cursors[k].with_rows = i.with_rows,
                           !.cursors[k].lastrowid = i.lastrowid,
                           !.cursors[k].rowcount = i.rowcount,
                           !.drv = [with_rows |-> i.with_rows, lastrowid |-> i.lastrowid,
                                    rowcount |-> i.rowcount,
                                    n |-> IF i.with_rows THEN i.n ELSE 0]], "execute")
        ELSE Raise(Log(t, "execute_fail"), "JeekdbError", "_execute failed")

\* cursor.fetchall(): every row not fetched yet
fetchall(s, k, fetchOk) ==
    IF fetchOk
    THEN Log([s EXCEPT !.ret = s.cursors[k].rows, !.cursors[k].rows = <<>>], "fetchall")
    ELSE Raise(Log(s, "fetchall_fail"), "DriverError", "fetch")

\* query: execute, fetch all rows, close the cursor (finally)
query_leaky(s, sql, params, i) ==
    LET c == _cursor(s, i.connectOk, "query")
        k == Len(c.cursors)
        x == _execute(c, k, sql, params, i)
        f == IF x.exc # "none" THEN x ELSE fetchall(x, k, i.fetchOk)
    IN  IF c.exc # "none" THEN c
        ELSE IF f.exc # "none" THEN f ELSE cursor_close(f, k)

query(s, sql, params, i) ==
    LET c == _cursor(s, i.connectOk, "query")
        k == Len(c.cursors)
        x == _execute(c, k, sql, params, i)
        f == IF x.exc # "none" THEN x ELSE fetchall(x, k, i.fetchOk)
    IN  IF c.exc # "none" THEN c ELSE cursor_close(f, k)

\* get_one: a singular row, None for no row, JeekdbError for more than one
get_one_first(s, sql, params, i) ==
    LET q == query(s, sql, params, i)
    IN  IF q.exc # "none" THEN q
        ELSE IF Len(q.ret) = 0 THEN [q EXCEPT !.ret = None]
        ELSE [q EXCEPT !.ret = q.ret[1]]

get_one(s, sql, params, i) ==
    LET q == query(s, sql, params, i)
    IN  IF q.exc # "none" THEN q
        ELSE IF Len(q.ret) = 0 THEN [q EXCEPT !.ret = None]
        ELSE IF Len(q.ret) > 1
             THEN Raise([q EXCEPT !.ret = None], "JeekdbError",
                        "multiple rows returned for get_one()")
        ELSE [q EXCEPT !.ret = q.ret[1]]

\* execute: ExecuteResult(last_row_id, row_count, rows)
execute_no_fetch(s, sql, params, i) ==
    LET c == _cursor(s, i.connectOk, "execute")
        k == Len(c.cursors)
        x == _execute(c, k, sql, params, i)
        last_row_id == x.cursors[k].lastrowid
        row_count == x.cursors[k].rowcount
        f == [x EXCEPT !.ret = None]
        r == IF f.exc # "none" THEN f
             ELSE [f EXCEPT !.ret = [last_row_id |-> last_row_id,
                                     row_count |-> row_count, rows |-> f.ret]]
    IN  IF c.exc # "none" THEN c
        ELSE IF x.exc # "none" THEN cursor_close(x, k)
        ELSE cursor_close(r, k)

execute(s, sql, params, i) ==
    LET c == _cursor(s, i.connectOk, "execute")
        k == Len(c.cursors)
        x == _execute(c, k, sql, params, i)
        last_row_id == x.cursors[k].lastrowid
        row_count == x.cursors[k].rowcount
        f == IF x.cursors[k].with_rows THEN fetchall(x, k, i.fetchOk)
             ELSE [x EXCEPT !.ret = None]
        r == IF f.exc # "none" THEN f
             ELSE [f EXCEPT !.ret = [last_row_id |-> last_row_id,
                                     row_count |-> row_count, rows |-> f.ret]]
    IN  IF c.exc # "none" THEN c
        ELSE IF x.exc # "none" THEN cursor_close(x, k)
        ELSE cursor_close(r, k)

\* update = execute
update(s, sql, params, i) == execute(s, sql, params, i)

\* ', '.join(parts) and ' AND '.join(parts), on texts kept as token sequences
RECURSIVE Join(_, _)
Join(parts, sep) ==
    IF Len(parts) = 0 THEN <<>>
    ELSE IF Len(parts) = 1 THEN parts[1]
    ELSE parts[1] \o <<sep>> \o Join(Tail(parts), sep)

\* insert: INSERT INTO table (cols) VALUES (placeholders), then execute
insert_misaligned(s, table, data, i) ==
    LET n == Len(data.keys)
        sql_cols == [j \in 1..n |-> <<Backtick, data.keys[j], Backtick>>]
        sql_vals == [j \in 1..n |-> <<"%(", data.keys[n + 1 - j], ")s">>]
        sql == <<"INSERT INTO ", Backtick, table, Backtick, " (">>
                 \o Join(sql_cols, ", ")
                 \o <<") VALUES (">> \o Join(sql_vals, ", ") \o <<")">>
    IN  execute(s, sql, data, i)

insert(s, table, data, i) ==
    LET sql_cols == [j \in 1..Len(data.keys) |-> <<Backtick, data.keys[j], Backtick>>]
        sql_vals == [j \in 1..Len(data.keys) |-> <<"%(", data.keys[j], ")s">>]
        sql == <<"INSERT INTO ", Backtick, table, Backtick, " (">>
                 \o Join(sql_cols, ", ")
                 \o <<") VALUES (">> \o Join(sql_vals, ", ") \o <<")">>
    IN  execute(s, sql, data, i)

\* not conditions: None or {}
Falsy(d) == d.none \/ Len(d.keys) = 0

\* delete: refuses empty conditions, else DELETE FROM table WHERE ..., then execute
delete_first_condition(s, table, conditions, i) ==
    IF Falsy(conditions)
    THEN Raise(s, "JeekdbError", "conditions can not be None or {}")
    ELSE LET sql_where == [j \in 1..1 |->
                             <<Backtick, conditions.keys[j], Backtick, " = %(",
                               conditions.keys[j], ")s">>]
             sql == <<"DELETE FROM ", Backtick, table, Backtick, " WHERE ">>
                      \o Join(sql_where, " AND ")
         IN  execute(s, sql, conditions, i)

delete_unguarded(s, table, conditions, i) ==
    LET sql_where == [j \in 1..Len(conditions.keys) |->
                         <<Backtick, conditions.keys[j], Backtick, " = %(",
                           conditions.keys[j], ")s">>]
        sql == <<"DELETE FROM ", Backtick, table, Backtick, " WHERE ">>
                 \o Join(sql_where, " AND ")
    IN  execute(s, sql, conditions, i)

delete(s, table, conditions, i) ==
    IF Falsy(conditions)
    THEN Raise(s, "JeekdbError", "conditions can not be None or {}")
    ELSE LET sql_where == [j \in 1..Len(conditions.keys) |->
                             <<Backtick, conditions.keys[j], Backtick, " = %(",
                               conditions.keys[j], ")s">>]
             sql == <<"DELETE FROM ", Backtick, table, Backtick, " WHERE ">>
                      \o Join(sql_where, " AND ")
         IN  execute(s, sql, conditions, i)

(* ----------------------------- iter ------------------------------------ *)
\* cursor.fetchmany(size): the next rows, at most size of them
fetchmany_skip(s, k, size, fetchOk) ==
    LET rows == s.cursors[k].rows
        m == Min(size, Len(rows))
    IN  IF fetchOk
        THEN Log([s EXCEPT !.ret = SubSeq(rows, 1, m),
                           !.cursors[k].rows = SubSeq(rows, m + 2, Len(rows))],
                 "fetchmany")
        ELSE Raise(Log(s, "fetchmany_fail"), "DriverError", "fetch")

fetchmany(s, k, size, fetchOk) ==
    LET rows == s.cursors[k].rows
        m == Min(size, Len(rows))
    IN  IF fetchOk
        THEN Log([s EXCEPT !.ret = SubSeq(rows, 1, m),
                           !.cursors[k].rows = SubSeq(rows, m + 1, Len(rows))],
                 "fetchmany")
        ELSE Raise(Log(s, "fetchmany_fail"), "DriverError", "fetch")

\* the generator object of iter(): nothing of the body has run in state "created"
NoGen == [state |-> "none", size |-> 0, cursor |-> None, buf |-> <<>>,
          yielded |-> <<>>, n |-> 0, fetches |-> 0]
NewGen(size) == [NoGen EXCEPT !.state = "created", !.size = size]

Active(g) == g.state \in {"created", "suspended"}

\* the statement and parameters the calls of the model pass
Sql == <<"SELECT">>

\* iter, from cursor.fetchmany to the next yield or to the end of the loop;
\* the finally clause closes the cursor when the body ends or raises
iter_fetch_leaky(s, g, fetchOk) ==
    LET f == fetchmany(s, g.cursor, g.size, fetchOk)
    IN  IF f.exc # "none"
        THEN [s |-> f, g |-> [g EXCEPT !.state = "failed", !.fetches = @ + 1]]
        ELSE IF Len(f.ret) = 0
        THEN [s |-> Raise(cursor_close([f EXCEPT !.ret = None], g.cursor),
                          "StopIteration", ""),
              g |-> [g EXCEPT !.state = "exhausted", !.fetches = @ + 1]]
        ELSE [s |-> [f EXCEPT !.ret = f.ret[1]],
              g |-> [g EXCEPT !.state = "suspended", !.buf = Tail(f.ret),
                              !.yielded = Append(@, f.ret[1]), !.fetches = @ + 1]]

iter_fetch(s, g, fetchOk) ==
    LET f == fetchmany(s, g.cursor, g.size, fetchOk)
    IN  IF f.exc # "none"
        THEN [s |-> cursor_close(f, g.cursor),
              g |-> [g EXCEPT !.state = "failed", !.fetches = @ + 1]]
        ELSE IF Len(f.ret) = 0
        THEN [s |-> Raise(cursor_close([f EXCEPT !.ret = None], g.cursor),
                          "StopIteration", ""),
              g |-> [g EXCEPT !.state = "exhausted", !.fetches = @ + 1]]
        ELSE [s |-> [f EXCEPT !.ret = f.ret[1]],
              g |-> [g EXCEPT !.state = "suspended", !.buf = Tail(f.ret),
                              !.yielded = Append(@, f.ret[1]), !.fetches = @ + 1]]

\* iter, from the first next() to the first yield: _cursor, _execute, the loop
iter_start(s, g, i) ==
    LET c == _cursor(s, i.connectOk, "iter")
        k == Len(c.cursors)
        x == _execute(c, k, Sql, NoneDict, i)
    IN  IF c.exc # "none" THEN [s |-> c, g |-> [g EXCEPT !.state = "failed"]]
        ELSE IF x.exc # "none"
        THEN [s |-> cursor_close(x, k),
              g |-> [g EXCEPT !.state = "failed", !.cursor = k]]
        ELSE iter_fetch(x, [g EXCEPT !.cursor = k, !.n = i.n], i.fetchOk)

\* next(generator)
iter_next_repeat(s, g, i) ==
    IF g.state = "created" THEN iter_start(s, g, i)
    ELSE IF g.state = "suspended"
    THEN IF Len(g.buf) > 0
         THEN [s |-> [s EXCEPT !.ret = Head(g.buf)],
               g |-> [g EXCEPT !.yielded = Append(@, Head(g.buf))]]
         ELSE iter_fetch(s, g, i.fetchOk)
    ELSE [s |-> Raise(s, "StopIteration", ""), g |-> g]

iter_next(s, g, i) ==
    IF g.state = "created" THEN iter_start(s, g, i)
    ELSE IF g.state = "suspended"
    THEN IF Len(g.buf) > 0
         THEN [s |-> [s EXCEPT !.ret = Head(g.buf)],
               g |-> [g EXCEPT !.buf = Tail(@), !.yielded = Append(@, Head(g.buf))]]
         ELSE iter_fetch(s, g, i.fetchOk)
    ELSE [s |-> Raise(s, "StopIteration", ""), g |-> g]

\* generator.close(), also run when a suspended generator is dropped:
\* GeneratorExit at the yield runs the finally clause
iter_close_leaky(s, g) ==
    IF Active(g) THEN [s |-> s, g |-> [g EXCEPT !.state = "closed", !.buf = <<>>]]
    ELSE [s |-> s, g |-> g]

iter_close(s, g) ==
    IF g.state = "suspended"
    THEN [s |-> cursor_close(s, g.cursor),
          g |-> [g EXCEPT !.state = "closed", !.buf = <<>>]]
    ELSE IF g.state = "created" THEN [s |-> s, g |-> [g EXCEPT !.state = "closed"]]
    ELSE [s |-> s, g |-> g]

(* ------------------------------ actions -------------------------------- *)
\* the driver's connect can fail only in a call that reaches it
Reaches(i) == ~i.connectOk => (db = None \/ _exceed_max_idle_time(St))

Init ==
    /\ now = 0
    /\ obj = "new"
    /\ max_idle_time = 0
    /\ last_use_time = 0
    /\ db = None
    /\ conns = <<>>
    /\ cursors = <<>>
    /\ gen = NoGen
    /\ last = [op |-> "none", arg |-> NoneDict, ev |-> <<>>, exc |-> "none", msg |-> "", ret |-> None,
               sql |-> <<>>, params |-> NoneDict, drv |-> NoDrv]

\* Python drops an object nothing refers to: a closed cursor when the call or
\* the generator that made it ends, a closed connection once neither self._db
\* nor a cursor refers to it.  What stays keeps its order and is renumbered.
Rank(keep, k) == Cardinality({j \in keep : j <= k})
Compact(seq, keep) ==
    [j \in 1..Cardinality(keep) |-> seq[CHOOSE k \in keep : Rank(keep, k) = j]]
Renumber(keep, k) == IF k = None THEN None ELSE Rank(keep, k)

LiveCursors(r) == {k \in DOMAIN r.cursors : r.cursors[k].open}
LiveConns(r) ==
    {c \in DOMAIN r.conns :
        \/ r.conns[c].open
        \/ c = r.db
        \/ \E k \in LiveCursors(r) : r.cursors[k].conn = c}

\* a call returns or raises: the object's, the driver's and the generator's
\* new state, and what the caller got.  The consumer of a generator that has
\* ended drops it before its next call on the object.
Commit(r, g, op, arg) ==
    LET kc == LiveCursors(r)
        kn == LiveConns(r)
    IN  /\ Cardinality(kn) <= MaxConns
        /\ Cardinality(kc) <= MaxCursors
        /\ db' = Renumber(kn, r.db)
        /\ last_use_time' = r.last_use_time
        /\ conns' = Compact(r.conns, kn)
        /\ cursors' = [k \in DOMAIN Compact(r.cursors, kc) |->
                         [Compact(r.cursors, kc)[k] EXCEPT !.conn = Rank(kn, @)]]
        /\ gen' = IF Active(g) THEN [g EXCEPT !.cursor = Renumber(kc, @)]
                  ELSE IF op \in {"next", "generator.close"}
                  THEN [g EXCEPT !.cursor = None]
                  ELSE NoGen
        /\ last' = [op |-> op, arg |-> arg, ev |-> r.ev, exc |-> r.exc, msg |-> r.msg,
                    ret |-> r.ret, sql |-> r.sql, params |-> r.params, drv |-> r.drv]

\* Jeekdb(host, port, user, password, database, max_idle_time)
Construct(idle, ok) ==
    /\ obj = "new"
    /\ LET s0 == [St EXCEPT !.last_use_time = now, !.db = None]
           r == reconnect(s0, ok)
           e == IF r.exc # "none" THEN Raise(r, "JeekdbError", "connection failed")
                ELSE r
       IN  /\ Commit(e, gen, "__init__", NoneDict)
           /\ obj' = IF e.exc = "none" THEN "live" ELSE "failed"
    /\ max_idle_time' = idle
    /\ UNCHANGED now

\* __del__: when nothing refers to the object any more
Del ==
    /\ obj \in {"live", "failed"}
    /\ ~Active(gen)
    /\ Commit(close(St), gen, "__del__", NoneDict)
    /\ obj' = "deleted"
    /\ UNCHANGED <<now, max_idle_time>>

Close ==
    /\ obj = "live"
    /\ Commit(close(St), gen, "close", NoneDict)
    /\ UNCHANGED <<now, obj, max_idle_time>>

Reconnect(ok) ==
    /\ obj = "live"
    /\ Commit(reconnect(St, ok), gen, "reconnect", NoneDict)
    /\ UNCHANGED <<now, obj, max_idle_time>>

Tick ==
    /\ obj = "live"
    /\ now < MaxTime
    /\ now' = now + 1
    /\ gen' = IF Active(gen) THEN gen ELSE NoGen
    /\ UNCHANGED <<obj, max_idle_time, last_use_time, db, conns, cursors, last>>

Query(i) ==
    /\ obj = "live"
    /\ Commit(query(St, Sql, NoneDict, i), gen, "query", NoneDict)
    /\ UNCHANGED <<now, obj, max_idle_time>>

GetOne(i) ==
    /\ obj = "live"
    /\ Commit(get_one(St, Sql, NoneDict, i), gen, "get_one", NoneDict)
    /\ UNCHANGED <<now, obj, max_idle_time>>

\* execute, and update = execute
Execute(name, i) ==
    /\ obj = "live"
    /\ Commit(IF name = "update" THEN update(St, Sql, NoneDict, i)
              ELSE execute(St, Sql, NoneDict, i), gen, name, NoneDict)
    /\ UNCHANGED <<now, obj, max_idle_time>>

Insert(data, i) ==
    /\ obj = "live"
    /\ Commit(insert(St, "t", data, i), gen, "insert", data)
    /\ UNCHANGED <<now, obj, max_idle_time>>

Delete(conditions, i) ==
    /\ obj = "live"
    /\ Commit(delete(St, "t", conditions, i), gen, "delete", conditions)
    /\ UNCHANGED <<now, obj, max_idle_time>>

\* g = db.iter(sql, size=size): the generator object only
IterCall_eager(size) ==
    /\ obj = "live"
    /\ ~Active(gen)
    /\ LET c == _cursor(St, TRUE, "iter")
       IN  Commit(c, [NewGen(size) EXCEPT !.cursor = Len(c.cursors)], "iter", NoneDict)
    /\ UNCHANGED <<now, obj, max_idle_time>>

IterCall(size) ==
    /\ obj = "live"
    /\ ~Active(gen)
    /\ gen' = NewGen(size)
    /\ UNCHANGED <<now, obj, max_idle_time, last_use_time, db, conns, cursors, last>>

IterNext(i) ==
    /\ obj = "live"
    /\ gen.state # "none"
    /\ LET r == iter_next(St, gen, i)
       IN  Commit(r.s, r.g, "next", NoneDict)
    /\ UNCHANGED <<now, obj, max_idle_time>>

IterClose ==
    /\ obj = "live"
    /\ gen.state # "none"
    /\ LET r == iter_close(St, gen)
       IN  Commit(r.s, r.g, "generator.close", NoneDict)
    /\ UNCHANGED <<now, obj, max_idle_time>>

Next ==
    \/ \E idle \in IdleTimes, ok \in BOOLEAN : Construct(idle, ok)
    \/ Del
    \/ Close
    \/ \E ok \in BOOLEAN : Reconnect(ok)
    \/ Tick
    \/ \E i \in SelectInputs : Reaches(i) /\ Query(i)
    \/ \E i \in SelectInputs : Reaches(i) /\ GetOne(i)
    \/ \E name \in {"execute", "update"}, i \in Inputs : Reaches(i) /\ Execute(name, i)
    \/ \E data \in Dicts, i \in DmlInputs : Reaches(i) /\ Insert(data, i)
    \/ \E conditions \in Dicts \cup {NoneDict}, i \in DmlInputs :
          Reaches(i) /\ Delete(conditions, i)
    \/ \E size \in 1..MaxSize : IterCall(size)
    \/ \E i \in SelectInputs : Reaches(i) /\ IterNext(i)
    \/ IterClose

Spec == Init /\ [][Next]_vars

(* ------------------------- reading a call's log ------------------------- *)
Has(ev, e) == \E j \in DOMAIN ev : ev[j] = e
Pos(ev, e) == IF Has(ev, e) THEN CHOOSE j \in DOMAIN ev : ev[j] = e /\ \A h \in 1..(j - 1) : ev[h] # e
              ELSE 0
Count(ev, e) == Cardinality({j \in DOMAIN ev : ev[j] = e})
Before(ev, a, b) == Has(ev, b) => (Has(ev, a) /\ Pos(ev, a) < Pos(ev, b))

\* a step that is a call on the object or on the generator: every step but
\* the passage of time and the creation of a generator object
CallStep == now' = now /\ ~(gen.state # "created" /\ gen'.state = "created")

SyncOps == {"query", "get_one", "execute", "update", "insert", "delete"}

\* a call that acquires a cursor: the synchronous operations, but delete with
\* empty conditions, and the first next() of a generator
CursorCall ==
    /\ CallStep
    /\ \/ last'.op \in SyncOps /\ ~(last'.op = "delete" /\ Falsy(last'.arg))
       \/ last'.op = "next" /\ gen.state = "created"

ConnectTried(ev) == Has(ev, "connect") \/ Has(ev, "connect_fail")

(* ------------------------------- claims -------------------------------- *)
\* C1: an operation that acquires a cursor reconnects (closes the old handle,
\* opens a new one) before executing iff the handle is absent or the time
\* since the last-use stamp is strictly greater than max_idle_time; and when
\* the connection step succeeds the stamp is set to now before the cursor is
\* created.
C1_IdleReconnect ==
    [][CursorCall =>
        LET ev == last'.ev
        IN  /\ ConnectTried(ev) <=> (db = None \/ now - last_use_time > max_idle_time)
            /\ ConnectTried(ev) =>
                 /\ db # None => ev[1] = "db.close"
                 /\ \A c \in DOMAIN conns' : conns'[c].open => c = db'
                 /\ Count(ev, "connect") + Count(ev, "connect_fail") = 1
                 /\ Before(ev, "connect", "execute")
                 /\ Before(ev, "connect", "execute_fail")
            /\ ~Has(ev, "connect_fail") =>
                 /\ last_use_time' = now
                 /\ Has(ev, "cursor") /\ Before(ev, "stamp", "cursor")]_vars

\* an idle handle was replaced: closed, reopened, stamped, then the cursor
C1_Witness ==
    /\ last.op \in SyncOps \cup {"next"}
    /\ Len(last.ev) >= 4
    /\ SubSeq(last.ev, 1, 4) = <<"db.close", "connect", "stamp", "cursor">>
    /\ last_use_time = now

\* C2 (as claimed): after the driver's execute raises in an operation, the
\* connection is invalidated: the handle is closed and absent, so that the
\* following operation connects again before its own statement.
C2_InvalidatedAfterExecuteFailure ==
    Has(last.ev, "execute_fail") => db = None

\* C3: a synchronous operation that acquired a cursor has closed it when it
\* returns or raises (normal return, execute failure, fetch failure): no
\* cursor opened by query, get_one, execute/update, insert or delete is open
\* after the call.
C3_SyncCursorClosed ==
    /\ \A k \in DOMAIN cursors : cursors[k].open => cursors[k].owner = "iter"
    /\ (last.op \in SyncOps /\ Has(last.ev, "cursor")) =>
          /\ Count(last.ev, "cursor") = 1
          /\ Count(last.ev, "cursor.close") = 1
          /\ last.ev[Len(last.ev)] = "cursor.close"

\* query raised out of fetchall and its cursor is closed
C3_Witness ==
    /\ last.op = "query"
    /\ last.exc = "DriverError"
    /\ Has(last.ev, "fetchall_fail")
    /\ last.ev[Len(last.ev)] = "cursor.close"
    /\ \A k \in DOMAIN cursors : cursors[k].owner = "iter"

IterCursors == {k \in DOMAIN cursors : cursors[k].owner = "iter" /\ cursors[k].open}

\* C4: the cursor of iter stays open while the generator is suspended between
\* rows and is closed when the sequence ends: by exhaustion, by the consumer
\* closing the generator early, or by an error of execute or of a fetch.
C4_IterCursor ==
    /\ gen.state = "suspended" =>
          /\ gen.cursor \in IterCursors
          /\ cursors[gen.cursor].executes = 1
    /\ gen.state # "suspended" => IterCursors = {}

\* the consumer closed a generator that had yielded some of its rows
C4_Witness ==
    /\ gen.state = "closed"
    /\ Len(gen.yielded) > 0
    /\ Len(gen.yielded) < gen.n
    /\ last.op = "generator.close"
    /\ last.ev = <<"cursor.close">>
    /\ IterCursors = {}

\* the driver's answers of a call in which nothing fails, for n rows
Good(n) == [connectOk |-> TRUE, execOk |-> TRUE, fetchOk |-> TRUE, n |-> n,
            with_rows |-> TRUE, lastrowid |-> None, rowcount |-> -1]

\* C5: a fully consumed iter yields exactly the rows query returns for the
\* same result set, in the same order, for every batch size; and an exhausted
\* generator yields no further row.
C5_IterEqualsQuery ==
    /\ [](gen.state = "exhausted" =>
            gen.yielded = query(St, Sql, NoneDict, Good(gen.n)).ret)
    /\ [][(gen.state = "exhausted" /\ CallStep /\ last'.op = "next") =>
            /\ gen'.state = "exhausted"
            /\ gen'.yielded = gen.yielded
            /\ last'.exc = "StopIteration"
            /\ last'.ev = <<>>]_vars

\* exhausted after a number of rows that is a multiple of the batch size
C5_Witness ==
    /\ gen.state = "exhausted"
    /\ gen.size = 2
    /\ Len(gen.yielded) = 2
    /\ gen.yielded = <<1, 2>>

\* C6 (as claimed): every driver failure reaches the caller as a typed error
\* of the library (JeekdbError), never as the driver's own error: for a
\* failed connect at construction, in reconnect() and in the reconnect run
\* inside an operation, and for a failed execute or fetch.
C6_DriverErrorsTyped ==
    last.exc \in {"none", "JeekdbError", "StopIteration"}

\* C7: when a driver connect fails (construction, reconnect(), or the
\* reconnect run by an operation) the handle is absent and the connection
\* held before has been closed; and the next operation that acquires a
\* cursor connects again, going on to its statement when the driver accepts.
C7_ConnectFailure ==
    [][CallStep =>
        /\ Has(last'.ev, "connect_fail") =>
              /\ db' = None
              /\ \A c \in DOMAIN conns' : ~conns'[c].open
              /\ db # None => (last'.ev[1] = "db.close" /\ Pos(last'.ev, "connect_fail") = 2)
              /\ last'.exc \in {"DriverError", "JeekdbError"}
              /\ ~Has(last'.ev, "cursor")
        /\ (CursorCall /\ db = None) =>
              /\ last'.ev[1] \in {"connect", "connect_fail"}
              /\ last'.ev[1] = "connect" =>
                    /\ db' # None
                    /\ conns'[db'].open
                    /\ Has(last'.ev, "execute") \/ Has(last'.ev, "execute_fail")]_vars

\* reconnect() failed on a manager that held a connection
C7_Witness ==
    /\ last.op = "reconnect"
    /\ last.ev = <<"db.close", "connect_fail">>
    /\ db = None
    /\ conns = <<>>

\* C8: delete with empty or None conditions raises before touching the
\* connection: no idle check, reconnect, connect, cursor or execute, and the
\* handle and the last-use stamp are unchanged, whatever the manager's state.
C8_DeleteEmptyConditions ==
    [][(CallStep /\ last'.op = "delete" /\ Falsy(last'.arg)) =>
        /\ last'.exc = "JeekdbError"
        /\ last'.msg = "conditions can not be None or {}"
        /\ last'.ev = <<>>
        /\ last'.sql = <<>>
        /\ UNCHANGED <<db, last_use_time, conns, cursors>>]_vars

\* refused on a connected manager whose handle is idle-expired
C8_Witness ==
    /\ last.op = "delete"
    /\ Falsy(last.arg)
    /\ last.exc = "JeekdbError"
    /\ last.ev = <<>>
    /\ db # None
    /\ now - last_use_time > max_idle_time

\* C9: get_one returns None for no row, the row for exactly one, raises
\* JeekdbError for two or more; it executes the statement once, through
\* query, and the cursor is closed when the result or the error is delivered.
C9_GetOne ==
    [][(CallStep /\ last'.op = "get_one") =>
        \A i \in {Good(n) : n \in 0..MaxRows} :
          (GetOne(i) /\ Has(last'.ev, "fetchall")) =>
             /\ i.n = 0 => (last'.exc = "none" /\ last'.ret = None)
             /\ i.n = 1 => (last'.exc = "none" /\ last'.ret = ResultSet(1)[1])
             /\ i.n >= 2 => (last'.exc = "JeekdbError" /\ last'.ret = None
                              /\ last'.msg = "multiple rows returned for get_one()")
             /\ Count(last'.ev, "execute") = 1
             /\ Before(last'.ev, "execute", "fetchall")
             /\ last'.ev[Len(last'.ev)] = "cursor.close"
             /\ cursors' = cursors]_vars

\* more than one row: the error, after one execute and with the cursor closed
C9_Witness ==
    /\ last.op = "get_one"
    /\ last.exc = "JeekdbError"
    /\ last.msg = "multiple rows returned for get_one()"
    /\ Count(last.ev, "execute") = 1
    /\ last.ev[Len(last.ev)] = "cursor.close"

\* C10: close() leaves the handle absent and raises nothing; on an absent
\* handle it makes no driver call; and the driver's close is called at most
\* once on any one connection.
C10_CloseIdempotent ==
    /\ [](\A c \in DOMAIN conns : conns[c].closes <= 1 /\ (conns[c].open <=> conns[c].closes = 0))
    /\ [][(CallStep /\ last'.op \in {"close", "__del__"}) =>
            /\ db' = None
            /\ last'.exc = "none"
            /\ db = None => (last'.ev = <<>> /\ conns' = conns)
            /\ db # None => last'.ev = <<"db.close">>]_vars

\* close() on a manager whose handle is already absent
C10_Witness ==
    /\ obj = "live"
    /\ last.op = "close"
    /\ last.ev = <<>>
    /\ last.exc = "none"
    /\ db = None

\* C11: execute, and update which is the same function, return an
\* ExecuteResult whose last_row_id and row_count are the cursor's lastrowid
\* and rowcount after the successful execute, whether or not there is a
\* result set; rows holds every row of the result set when the driver
\* reports one, after one fetchall, and is None with no fetch otherwise.
C11_ExecuteResult ==
    (last.op \in {"execute", "update"} /\ last.exc = "none") =>
        /\ Count(last.ev, "execute") = 1
        /\ last.ret.last_row_id = last.drv.lastrowid
        /\ last.ret.row_count = last.drv.rowcount
        /\ last.drv.with_rows <=> Has(last.ev, "fetchall")
        /\ IF Has(last.ev, "fetchall")
           THEN /\ last.ret.rows = ResultSet(last.drv.n)
                /\ Count(last.ev, "fetchall") = 1
                /\ Before(last.ev, "execute", "fetchall")
           ELSE last.ret.rows = None

\* update of one row without a result set: no fetch, rows is None, and the
\* affected-row count is delivered beside an absent last-inserted id
C11_Witness ==
    /\ last.op = "update"
    /\ last.exc = "none"
    /\ last.ev[Len(last.ev)] = "cursor.close"
    /\ ~Has(last.ev, "fetchall")
    /\ last.drv = [NoDrv EXCEPT !.rowcount = 1]
    /\ last.ret = [last_row_id |-> None, row_count |-> 1, rows |-> None]

\* a statement was handed to the driver's execute in the last call
Sent == Has(last.ev, "execute") \/ Has(last.ev, "execute_fail")

\* C12: every statement delete sends has a WHERE clause with one equality
\* condition per entry of conditions, in order, joined by AND, and at least
\* one of them; the parameters are the conditions mapping itself.  No DELETE
\* goes out with an empty WHERE clause.
C12_DeleteWhere ==
    (last.op = "delete" /\ (Sent \/ last.sql # <<>>)) =>
        LET keys == last.arg.keys
            n == Len(keys)
            sql == last.sql
        IN  /\ n >= 1
            /\ ~last.arg.none
            /\ last.params = last.arg
            /\ Len(sql) = 5 + 6 * n + (n - 1)
            /\ SubSeq(sql, 1, 5) = <<"DELETE FROM ", Backtick, "t", Backtick, " WHERE ">>
            /\ \A j \in 1..n :
                  SubSeq(sql, 7 * j - 1, 7 * j + 4)
                     = <<Backtick, keys[j], Backtick, " = %(", keys[j], ")s">>
            /\ \A j \in 1..(n - 1) : sql[7 * j + 5] = " AND "
            /\ Count(sql, " AND ") = n - 1
            /\ Count(last.ev, "execute") + Count(last.ev, "execute_fail") = 1

\* a delete on two conditions went to the driver
C12_Witness ==
    /\ last.op = "delete"
    /\ last.arg.keys = <<"name", "id">>
    /\ Has(last.ev, "execute")
    /\ Count(last.sql, " AND ") = 1
    /\ last.exc = "none"

\* C13: insert sends one statement, through execute, whose column list and
\* whose list of named placeholders hold the keys of the mapping, each once,
\* in the mapping's order, so that column j and placeholder j name the same
\* key; the parameters are the mapping itself.
C13_InsertStatement ==
    (last.op = "insert" /\ ~Has(last.ev, "connect_fail")) =>
        LET keys == last.arg.keys
            n == Len(keys)
            sep == IF n = 0 THEN 0 ELSE n - 1
            sql == last.sql
            vals == 5 + 3 * n + sep + 1   \* where the placeholders start, less one
        IN  /\ Count(last.ev, "execute") + Count(last.ev, "execute_fail") = 1
            /\ last.params = last.arg
            /\ Len(sql) = vals + 3 * n + sep + 1
            /\ SubSeq(sql, 1, 5) = <<"INSERT INTO ", Backtick, "t", Backtick, " (">>
            /\ sql[vals] = ") VALUES ("
            /\ sql[Len(sql)] = ")"
            /\ \A j \in 1..n :
                  /\ SubSeq(sql, 4 * j + 2, 4 * j + 4) = <<Backtick, keys[j], Backtick>>
                  /\ SubSeq(sql, vals + 4 * j - 3, vals + 4 * j - 1) = <<"%(", keys[j], ")s">>
            /\ \A j \in 1..(n - 1) : sql[4 * j + 5] = ", " /\ sql[vals + 4 * j] = ", "
            /\ Count(sql, ", ") = 2 * sep
            /\ Has(last.ev, "execute") =>
                  (last.exc = "none" /\ last.ret.rows = None
                     /\ last.ret.last_row_id = last.drv.lastrowid)

\* an insert of two columns, given in the order name, id
C13_Witness ==
    /\ last.op = "insert"
    /\ last.arg.keys = <<"name", "id">>
    /\ Has(last.ev, "execute")
    /\ last.sql[7] = "name"
    /\ last.exc = "none"

\* C14: the manager owns at most one open driver connection: every connection
\* it has opened, other than the one in the handle, is closed; so after
\* construction, operations, waits, close() and reconnect(), succeeding or
\* failing, no connection is left open behind the handle.
C14_OneOpenConnection ==
    /\ \A c \in DOMAIN conns : conns[c].open => c = db
    /\ db # None => (db \in DOMAIN conns /\ conns[db].open)
    /\ Cardinality({c \in DOMAIN conns : conns[c].open}) <= 1

\* the handle was replaced while a cursor of iter still referred to the old
\* connection: the old one is closed, the new one is the only one open
C14_Witness ==
    /\ Len(conns) = 2
    /\ db = 2
    /\ ~conns[1].open
    /\ conns[2].open
    /\ Has(last.ev, "db.close")
    /\ Has(last.ev, "connect")

\* C15: when a statement is handed to the driver's execute, the connection
\* that runs it was opened by this very call, or else was opened or last gave
\* a cursor at most max_idle_time before: after construction, close() and
\* reconnect() (which do not stamp), failed connects and any waits.
C15_FreshConnection ==
    /\ [](db # None => conns[db].since >= last_use_time)
    /\ [][(CursorCall /\ (Has(last'.ev, "execute") \/ Has(last'.ev, "execute_fail"))) =>
            \/ Has(last'.ev, "connect") /\ Before(last'.ev, "connect", "cursor")
            \/ /\ ~ConnectTried(last'.ev)
               /\ db # None
               /\ conns[db].open
               /\ now - conns[db].since <= max_idle_time]_vars

\* a statement ran at time 2 on a connection that was not reopened for it,
\* under an idle limit of 1
C15_Witness ==
    /\ last.op \in SyncOps
    /\ Has(last.ev, "execute")
    /\ ~ConnectTried(last.ev)
    /\ max_idle_time = 1
    /\ now >= 2

\* C16: nothing is retried: one call of query, get_one, execute, update,
\* insert or delete, and one iter sequence over all its next() calls, makes
\* at most one driver connect attempt and at most one driver execute; a
\* failed connect or execute ends the call with the error, no further
\* connect, execute or fetch following it.
C16_NoRetry ==
    /\ [](LET ev == last.ev
          IN  /\ Count(ev, "connect") + Count(ev, "connect_fail") <= 1
              /\ Count(ev, "execute") + Count(ev, "execute_fail") <= 1
              /\ Has(ev, "connect_fail") =>
                    /\ last.exc \in {"DriverError", "JeekdbError"}
                    /\ ev[Len(ev)] = "connect_fail"
              /\ Has(ev, "execute_fail") =>
                    /\ last.exc = "JeekdbError"
                    /\ Pos(ev, "execute_fail") = Len(ev) - 1
                    /\ ev[Len(ev)] = "cursor.close")
    /\ [](\A k \in DOMAIN cursors : cursors[k].executes <= 1)
    /\ [][(CallStep /\ last'.op = "next" /\ gen.state # "created") =>
            /\ ~ConnectTried(last'.ev)
            /\ ~Has(last'.ev, "execute")
            /\ ~Has(last'.ev, "execute_fail")]_vars

\* an operation reconnected an idle handle, its execute failed, and the call
\* ended there with the error
C16_Witness ==
    /\ last.op \in SyncOps
    /\ last.ev = <<"db.close", "connect", "stamp", "cursor", "execute_fail", "cursor.close">>
    /\ last.exc = "JeekdbError"
    /\ last.msg = "_execute failed"

\* the number of fetchmany calls that bring n rows in batches of size, and
\* then none
Batches(n, size) == (n + size - 1) \div size + 1

\* C17: a consumed iter terminates, for every result set of n rows and every
\* batch size: the statement is executed once; every fetch brings at most
\* size rows; every fetched row is yielded, each next() either yielding one
\* more row of the n or ending the sequence, so that it ends within n + 1
\* calls; and it stops at the first fetch that brings no row, which is its
\* last fetch, the one after the last batch.
C17_IterTerminates ==
    /\ [](IF gen.state = "suspended"
          THEN /\ cursors[gen.cursor].executes = 1
               /\ Len(gen.buf) < gen.size
               /\ gen.yielded \o gen.buf \o cursors[gen.cursor].rows = ResultSet(gen.n)
               /\ gen.fetches
                    = (Len(gen.yielded) + Len(gen.buf) + gen.size - 1) \div gen.size
          ELSE TRUE)
    /\ [](IF gen.state = "exhausted"
          THEN /\ gen.yielded = ResultSet(gen.n)
               /\ gen.fetches = Batches(gen.n, gen.size)
          ELSE TRUE)
    /\ [][IF CallStep /\ last'.op = "next" /\ Active(gen)
          THEN /\ Count(last'.ev, "fetchmany") + Count(last'.ev, "fetchmany_fail") <= 1
               /\ IF gen'.state = "suspended"
                  THEN /\ Len(gen'.yielded) = Len(gen.yielded) + 1
                       /\ last'.ret = gen'.yielded[Len(gen'.yielded)]
                       /\ last'.exc = "none"
                  ELSE gen'.state \in {"exhausted", "failed"}
               /\ IF gen'.state = "exhausted"
                  THEN /\ IF gen.state = "suspended"
                          THEN gen.buf = <<>> /\ cursors[gen.cursor].rows = <<>>
                          ELSE TRUE
                       /\ Len(last'.ev) >= 2
                       /\ SubSeq(last'.ev, Len(last'.ev) - 1, Len(last'.ev))
                             = <<"fetchmany", "cursor.close">>
                       /\ last'.exc = "StopIteration"
                  ELSE TRUE
               /\ IF gen.state = "created"
                  THEN Count(last'.ev, "execute") + Count(last'.ev, "execute_fail")
                          = (IF Has(last'.ev, "cursor") THEN 1 ELSE 0)
                  ELSE TRUE
          ELSE TRUE]_vars

\* two rows in batches of one: exhausted by the third fetch, the empty one
C17_Witness ==
    /\ gen.state = "exhausted"
    /\ gen.size = 1
    /\ gen.n = 2
    /\ gen.yielded = <<1, 2>>
    /\ gen.fetches = 3
    /\ last.exc = "StopIteration"

\* a driver call failed, or the call raised, in the last call
Failed ==
    \/ last.exc # "none"
    \/ \E e \in {"connect_fail", "execute_fail", "fetchall_fail", "fetchmany_fail"} :
          Has(last.ev, e)

\* C18 (as claimed): an operation that ends with an error has delivered no
\* Row and no ExecuteResult; for iter, no row has been yielded before an
\* error of the same sequence is raised.
C18_NoRowBeforeError ==
    /\ last.exc \notin {"none", "StopIteration"} => last.ret = None
    /\ gen.state = "failed" => gen.yielded = <<>>

\* C18 (amended): a call in which a driver call fails or a guard trips ends
\* with the error and returns no Row and no ExecuteResult; the next() that
\* raises delivers no row, and a failure of connect or of execute is raised
\* before any row of the sequence; but a fetchmany that fails on a later
\* batch is raised after the rows of the batches before it were yielded.
C18_NoResultWithError ==
    /\ [](Failed => (last.exc # "none" /\ last.ret = None))
    /\ [](gen.state = "failed" /\ Len(gen.yielded) > 0 => gen.fetches > 1)
    /\ [][(CallStep /\ last'.op = "next" /\ last'.exc # "none") =>
            /\ gen'.yielded = gen.yielded
            /\ (gen.state = "suspended" /\ gen'.state = "failed") =>
                  last'.ev = <<"fetchmany_fail", "cursor.close">>
            /\ (Has(last'.ev, "connect_fail") \/ Has(last'.ev, "execute_fail")) =>
                  (gen.state = "created" /\ gen'.yielded = <<>>)]_vars

\* the second fetch of a sequence failed after the first row was yielded
C18_Witness ==
    /\ gen.state = "failed"
    /\ gen.yielded = <<1>>
    /\ gen.fetches = 2
    /\ last.op = "next"
    /\ last.exc = "DriverError"
    /\ last.ret = None
    /\ last.ev = <<"fetchmany_fail", "cursor.close">>

\* C19 (as claimed): every open cursor belongs to the manager's current
\* connection: the manager never closes or replaces a connection while a
\* cursor created on it is open, so that a suspended iter, resumed after other
\* operations, close(), reconnect() or a wait, fetches from an open connection.
C19_CursorOnCurrentConnection ==
    \A k \in DOMAIN cursors :
        cursors[k].open => (cursors[k].conn = db /\ conns[cursors[k].conn].open)

\* C20: calling iter changes nothing but for the generator object it
\* returns: no idle check, reconnect, stamp, cursor or execute; a generator
\* that was never asked for a row holds no cursor, and closing it touches
\* nothing; the idle check, the reconnect, the stamp, the cursor and the
\* execute all happen in the first next(), by the time of that call.
C20_IterLazy ==
    /\ [](gen.state = "created" =>
            (gen.cursor = None /\ gen.yielded = <<>> /\ gen.fetches = 0
               /\ IterCursors = {}))
    /\ [][(gen.state # "created" /\ gen'.state = "created") =>
            /\ cursors' = cursors
            /\ conns' = conns
            /\ UNCHANGED <<db, last_use_time, now>>
            /\ last'.op = last.op /\ last'.ev = last.ev]_vars
    /\ [][(CallStep /\ gen.state = "created" /\ last'.op = "generator.close") =>
            /\ last'.ev = <<>>
            /\ UNCHANGED <<db, last_use_time, conns, cursors>>]_vars
    /\ [][(CallStep /\ gen.state = "created" /\ last'.op = "next") =>
            /\ ConnectTried(last'.ev) <=> (db = None \/ now - last_use_time > max_idle_time)
            /\ ~Has(last'.ev, "connect_fail") =>
                  /\ last_use_time' = now
                  /\ Before(last'.ev, "stamp", "cursor")
                  /\ Count(last'.ev, "cursor") = 1
                  /\ Count(last'.ev, "execute") + Count(last'.ev, "execute_fail") = 1
                  /\ Before(last'.ev, "cursor", "execute")
                  /\ Before(last'.ev, "cursor", "execute_fail")]_vars

\* a generator was created and not consumed: the handle it will use is
\* idle-expired and still open, and there is no cursor
C20_Witness ==
    /\ gen.state = "created"
    /\ db # None
    /\ conns[db].open
    /\ now - last_use_time > max_idle_time
    /\ cursors = <<>>

====
